---------------------------- MODULE Spec2Model ----------------------------
(***************************************************************************)
(* A model of the strand-state counting pipeline of src/src/main.cpp:      *)
(* option checks, header pre-scan, binning, the counting loop with its    *)
(* lock-step erase, the bin-quality filter, the removed-bins report, the  *)
(* good-bin chromosome index, the per-sample estimate of p, the HMM set-up *)
(* and the output table.                                                   *)
(*                                                                         *)
(* Floating point values are modelled as exact rationals extended with    *)
(* NaN and the two infinities, following IEEE-754 for division by zero,   *)
(* Inf - Inf, 0 * Inf and comparisons with NaN. Rounding is not modelled. *)
(***************************************************************************)
EXTENDS Integers, Sequences, FiniteSets, TLC

(***************************************************************************)
(* Bounds of the model.                                                    *)
(***************************************************************************)
\* input files of a run whose read counts vary freely
MaxCells == 2
\* input files of a run whose options and file outcomes vary freely
MaxFiles == 3
\* bins of a genome whose read counts vary freely
MaxBins == 3
\* bins of the wide genome, on which a single bin can exceed mean + 3 sd
WideBins == 11
\* chromosomes in the header (hdr->n_targets)
NTargets == 2
\* the largest amount by which one bin's counts are raised (the hot bin)
MaxRaise == 4

(***************************************************************************)
(* Program constants.                                                      *)
(***************************************************************************)
\* good bins lie below my_mean + 3*my_sd
SdFactor == 3
\* p_trans = 10.0f / bins.size()
TransNumer == 10

(***************************************************************************)
(* Extended rationals standing for float / double values.                  *)
(***************************************************************************)
Abs(x) == IF x < 0 THEN -x ELSE x

RECURSIVE GCD(_, _)
GCD(a, b) == IF b = 0 THEN a ELSE GCD(b, a % b)

NaN == [k |-> "nan", n |-> 0, d |-> 1]
Inf(s) == [k |-> "inf", n |-> s, d |-> 1]
Fin(n, d) ==
    LET g == GCD(Abs(n), Abs(d))
        s == IF d < 0 THEN -1 ELSE 1
    IN  [k |-> "fin", n |-> s * (n \div g), d |-> s * (d \div g)]
Num(x) == Fin(x, 1)

IsFin(a) == a.k = "fin"
IsNaN(a) == a.k = "nan"
Sgn(a) == IF a.n > 0 THEN 1 ELSE IF a.n < 0 THEN -1 ELSE 0

FNeg(a) ==
    IF IsNaN(a) THEN NaN
    ELSE IF IsFin(a) THEN Fin(-a.n, a.d) ELSE Inf(-a.n)

FAdd(a, b) ==
    IF IsNaN(a) \/ IsNaN(b) THEN NaN
    ELSE IF IsFin(a) /\ IsFin(b) THEN Fin(a.n * b.d + b.n * a.d, a.d * b.d)
    ELSE IF IsFin(a) THEN b
    ELSE IF IsFin(b) THEN a
    ELSE IF a.n = b.n THEN a ELSE NaN

FSub(a, b) == FAdd(a, FNeg(b))

FMul(a, b) ==
    IF IsNaN(a) \/ IsNaN(b) THEN NaN
    ELSE IF IsFin(a) /\ IsFin(b) THEN Fin(a.n * b.n, a.d * b.d)
    ELSE IF Sgn(a) = 0 \/ Sgn(b) = 0 THEN NaN
    ELSE Inf(Sgn(a) * Sgn(b))

\* x / 0 is +-Inf for x # 0 and NaN for x = 0; a zero divisor counts as +0
FDiv(a, b) ==
    IF IsNaN(a) \/ IsNaN(b) THEN NaN
    ELSE IF IsFin(a) /\ IsFin(b) THEN
        IF b.n = 0 THEN (IF a.n = 0 THEN NaN ELSE Inf(Sgn(a)))
        ELSE Fin(a.n * b.d, a.d * b.n)
    ELSE IF IsFin(a) THEN Num(0)
    ELSE IF IsFin(b) THEN Inf(IF Sgn(b) < 0 THEN -Sgn(a) ELSE Sgn(a))
    ELSE NaN

\* every comparison with NaN is false
FLess(a, b) ==
    IF IsNaN(a) \/ IsNaN(b) THEN FALSE
    ELSE IF IsFin(a) /\ IsFin(b) THEN a.n * b.d < b.n * a.d
    ELSE IF IsFin(a) THEN b.n > 0
    ELSE IF IsFin(b) THEN a.n < 0
    ELSE a.n < b.n

FLeq(a, b) ==
    IF IsNaN(a) \/ IsNaN(b) THEN FALSE
    ELSE IF IsFin(a) /\ IsFin(b) THEN a.n * b.d <= b.n * a.d
    ELSE IF IsFin(a) THEN b.n > 0
    ELSE IF IsFin(b) THEN a.n < 0
    ELSE a.n <= b.n

RECURSIVE FSum(_)
FSum(xs) == IF xs = << >> THEN Num(0) ELSE FAdd(Head(xs), FSum(Tail(xs)))

\* boost::accumulators::mean: sum / count (0/0 = NaN without samples)
FMean(xs) == FDiv(FSum(xs), Num(Len(xs)))

\* boost::accumulators::variance: mean of the squares minus the squared mean
FVariance(xs) ==
    LET sq == [j \in 1..Len(xs) |-> FMul(xs[j], xs[j])]
        m  == FMean(xs)
    IN  FSub(FMean(sq), FMul(m, m))

\* std::inner_product(a.begin(), a.end(), b.begin(), 0.0f)
InnerProduct(a, b) == FSum([j \in 1..Len(a) |-> FMul(a[j], b[j])])


(***************************************************************************)
(* Helpers on sequences.                                                   *)
(***************************************************************************)
\* vector::erase(begin() + i), with i counted from 1
EraseLast(s, i) == SubSeq(s, 1, Len(s) - 1)
EraseAt(s, i) == SubSeq(s, 1, i - 1) \o SubSeq(s, i + 1, Len(s))

RECURSIVE Insert(_, _)
Insert(x, s) ==
    IF s = << >> THEN <<x>>
    ELSE IF x <= Head(s) THEN <<x>> \o s
    ELSE <<Head(s)>> \o Insert(x, Tail(s))

RECURSIVE SortAsc(_)
SortAsc(s) == IF s = << >> THEN << >> ELSE Insert(Head(s), SortAsc(Tail(s)))

\* TMedianAccumulator: the median of the values, the mean of the two middle
\* ones for an even number of them, stored in an unsigned
Median(xs) ==
    LET s == SortAsc(xs)
        n == Len(xs)
    IN  IF n = 0 THEN 0
        ELSE IF n % 2 = 1 THEN s[(n + 1) \div 2]
        ELSE (s[n \div 2] + s[n \div 2 + 1]) \div 2

(***************************************************************************)
(* Counters. A Counter holds watson_count, crick_count and the label that  *)
(* get_label() prints; a TGenomeCounts is a sequence of them, one per bin. *)
(* Bins are numbered from 1 here (from 0 in the source); chromosome ids    *)
(* and the positions stored in good_map are numbered from 0 as in the      *)
(* source.                                                                 *)
(***************************************************************************)
\* the label of a Counter no decoding has set; a decoded label names the
\* model, the observation sequence and the place in it (see run_HMM)
NoModel == [initials |-> << >>, transitions |-> << >>,
            emissions |-> [p |-> NaN, CC |-> << >>, WC |-> << >>, WW |-> << >>]]
NoLabel == [model |-> NoModel, obs |-> << >>, at |-> 0]
Counter(w, c) == [watson_count |-> w, crick_count |-> c, label |-> NoLabel]
Total(cb) == cb.watson_count + cb.crick_count

\* median count per cell (lines 217-222)
MedianBinCount(cnt) == Median([b \in 1..Len(cnt) |-> Total(cnt[b])])

(***************************************************************************)
(* Bin-quality filter (lines 266-299). cnt[i][bin] is the Counter of cell  *)
(* i, med[i] its median_bin_count.                                         *)
(***************************************************************************)
\* norm_counts[i][bin], added up as in meanvar_acc(get<0> + get<1>)
NormTotal(cb, m) ==
    FAdd(FDiv(Num(cb.watson_count), Num(m)), FDiv(Num(cb.crick_count), Num(m)))

\* bin_means[bin]
BinMeans(cnt, med, nbins) ==
    [bin \in 1..nbins |->
        FMean([i \in 1..Len(cnt) |-> NormTotal(cnt[i][bin], med[i])])]

\* the literal 0.01
LowMean == Fin(1, 100)

\* x < my_mean + 3*my_sd with my_sd = sqrt(my_var): false when the right
\* side is NaN, else decided on the squares
BelowHigh(x, my_mean, my_var) ==
    IF ~(IsFin(my_mean) /\ IsFin(my_var)) THEN FALSE
    ELSE IF ~IsFin(x) THEN x.k = "inf" /\ x.n < 0
    ELSE LET dev == FSub(x, my_mean)
         IN  \/ FLess(dev, Num(0))
             \/ FLess(FMul(dev, dev), FMul(Num(SdFactor * SdFactor), my_var))

IsGoodBin(x, my_mean, my_var) == FLess(LowMean, x) /\ BelowHigh(x, my_mean, my_var)

ReasonCode(x) == IF FLeq(x, LowMean) THEN "l" ELSE "h"

\* one turn of the loop of lines 294-298
PushBinNoHigh(acc, bin, x, my_mean, my_var) ==
    IF IsGoodBin(x, my_mean, my_var)
    THEN [acc EXCEPT !.good = Append(@, bin)]
    ELSE IF FLeq(x, LowMean) THEN [acc EXCEPT !.bad = Append(@, "l")] ELSE acc
PushBin(acc, bin, x, my_mean, my_var) ==
    IF IsGoodBin(x, my_mean, my_var)
    THEN [acc EXCEPT !.good = Append(@, bin)]
    ELSE [acc EXCEPT !.bad = Append(@, ReasonCode(x))]

RECURSIVE ClassifyFrom(_, _, _, _, _)
ClassifyFrom(bin, means, my_mean, my_var, acc) ==
    IF bin > Len(means) THEN acc
    ELSE ClassifyFrom(bin + 1, means, my_mean, my_var,
                      PushBin(acc, bin, means[bin], my_mean, my_var))

\* good_bins and bad_bins of the bin means
FindGoodBins(means) ==
    ClassifyFrom(1, means, FMean(means), FVariance(means),
                 [good |-> << >>, bad |-> << >>])

(***************************************************************************)
(* The removed-bins report (lines 307-316). goodit and badit are positions *)
(* in good_bins and bad_bins, Len + 1 standing for end().                  *)
(***************************************************************************)
\* *badit; the source never reads past the end (the assertion of line 316)
Deref(bad, badit) == IF badit <= Len(bad) THEN bad[badit] ELSE "?"

RemovedStepLeq(st, bin, good, bad) ==
    IF st.goodit = Len(good) + 1 \/ bin <= good[st.goodit]
    THEN [st EXCEPT !.rows = Append(@, [bin |-> bin, reason |-> Deref(bad, st.badit)]),
                    !.badit = @ + 1]
    ELSE [st EXCEPT !.goodit = @ + 1]
RemovedStep(st, bin, good, bad) ==
    IF st.goodit = Len(good) + 1 \/ bin < good[st.goodit]
    THEN [st EXCEPT !.rows = Append(@, [bin |-> bin, reason |-> Deref(bad, st.badit)]),
                    !.badit = @ + 1]
    ELSE [st EXCEPT !.goodit = @ + 1]

RECURSIVE RemovedFrom(_, _, _, _, _)
RemovedFrom(bin, nbins, st, good, bad) ==
    IF bin > nbins THEN st
    ELSE RemovedFrom(bin + 1, nbins, RemovedStep(st, bin, good, bad), good, bad)

RemovedBins(nbins, good, bad) ==
    RemovedFrom(1, nbins, [rows |-> << >>, goodit |-> 1, badit |-> 1], good, bad)

(***************************************************************************)
(* The chromosome index of the good bins (lines 323-334). chr[bin] is the  *)
(* chromosome of a bin; the result has an entry per chromosome 0 ..        *)
(* n_targets-1 and the final entry good_bins.size(), entry c at place c+1. *)
(***************************************************************************)
RECURSIVE SkipBeforeLeq(_, _, _, _)
SkipBeforeLeq(pos, chr, good, binchr) ==
    IF pos < Len(good) /\ binchr[good[pos + 1]] <= chr
    THEN SkipBeforeLeq(pos + 1, chr, good, binchr)
    ELSE pos

RECURSIVE SkipBefore(_, _, _, _)
SkipBefore(pos, chr, good, binchr) ==
    IF pos < Len(good) /\ binchr[good[pos + 1]] < chr
    THEN SkipBefore(pos + 1, chr, good, binchr)
    ELSE pos

RECURSIVE GoodMapFrom(_, _, _, _, _, _)
GoodMapFrom(chr, ntargets, pos, map, good, binchr) ==
    IF chr >= ntargets THEN Append(map, Len(good))
    ELSE LET p2 == SkipBefore(pos, chr, good, binchr)
         IN  GoodMapFrom(chr + 1, ntargets, p2,
                         Append(map, IF p2 >= Len(good) THEN Len(good) ELSE p2),
                         good, binchr)

GoodMapFlat(good, binchr, ntargets) == [c \in 1..(ntargets + 1) |-> IF c = 1 THEN 0 ELSE Len(good)]
GoodMap(good, binchr, ntargets) == GoodMapFrom(0, ntargets, 0, << >>, good, binchr)

(***************************************************************************)
(* Estimation of p per sample (lines 337-358). names[i] is the sample name *)
(* of cell i. samples maps every sample name to a SampleInfo; a sample     *)
(* that is not in the source's unordered_map has no means.                 *)
(***************************************************************************)
SampleNames == {"s1", "s2"}

SampleInfo == [means |-> << >>, vars |-> << >>, p |-> NaN]

\* crick_count + watson_count of the good bins of one cell (line 343)
GoodTotals(cnt, good) == [bini \in 1..Len(good) |-> Num(Total(cnt[good[bini]]))]

RECURSIVE AddCells(_, _, _, _, _)
AddCells(i, cnt, names, good, acc) ==
    IF i > Len(cnt) THEN acc
    ELSE LET tot == GoodTotals(cnt[i], good)
             s   == names[i]
         IN  AddCells(i + 1, cnt, names, good,
                      [acc EXCEPT ![s].means = Append(@, FMean(tot)),
                                  ![s].vars  = Append(@, FVariance(tot))])

\* s.p of lines 356-357
EstimateP(s) == FDiv(InnerProduct(s.means, s.means), InnerProduct(s.means, s.vars))

Samples(cnt, names, good) ==
    LET acc == AddCells(1, cnt, names, good, [s \in SampleNames |-> SampleInfo])
    IN  [s \in SampleNames |->
            IF acc[s].means = << >> THEN acc[s]
            ELSE [acc[s] EXCEPT !.p = EstimateP(acc[s])]]

(***************************************************************************)
(* HMM set-up (lines 388-411).                                             *)
(***************************************************************************)
Initials == <<Fin(3333, 10000), Fin(3333, 10000), Fin(3333, 10000)>>

\* p_trans and the matrix handed to set_transitions
PTrans(nbins) == FDiv(Num(TransNumer), Num(nbins))
Transitions(nbins) ==
    LET p_trans == PTrans(nbins)
        stay    == FSub(Num(1), FMul(Num(2), p_trans))
    IN  << <<stay, p_trans, p_trans>>,
           <<p_trans, stay, p_trans>>,
           <<p_trans, p_trans, stay>> >>

\* double n = (double)median_bin_count / 2 * p / (1-p)
EmissionN(median_bin_count, p) ==
    FDiv(FMul(FDiv(Num(median_bin_count), Num(2)), p), FSub(Num(1), p))

\* mean in zero bins
ZeroMean == Fin(1, 2)

\* the NegativeBinomial(p, mean) pairs (crick, watson) of CC, WC and WW
Emissions(median_bin_count, p) ==
    LET n == EmissionN(median_bin_count, p)
        z == ZeroMean
        n2 == FMul(Num(2), n)
    IN  [p  |-> p,
         CC |-> <<n2, z>>,
         WC |-> <<n, n>>,
         WW |-> <<z, n2>>]

(***************************************************************************)
(* run_HMM: for every chromosome the good bins at the places               *)
(* good_map[chr] .. good_map[chr+1]-1 of good_bins form one observation    *)
(* sequence, decoded on its own; every bin of it gets the label of its     *)
(* place, bins outside keep their label. The decoder is a function of the  *)
(* model and the observation sequence; a decoded label is written as that  *)
(* argument and the place in it.                                           *)
(***************************************************************************)
Observations(cnt, good, lo, len) ==
    [j \in 1..len |-> <<cnt[good[lo + j]].crick_count, cnt[good[lo + j]].watson_count>>]

Decoded(model, obs, j) == [model |-> model, obs |-> obs, at |-> j]

run_HMM(model, cnt, good, good_map, ntargets) ==
    [bin \in 1..Len(cnt) |->
        LET len(chr) == good_map[chr + 2] - good_map[chr + 1]
            chrs == {chr \in 0..(ntargets - 1) :
                        \E j \in 1..len(chr) : good[good_map[chr + 1] + j] = bin}
        IN  IF chrs = {} THEN cnt[bin]
            ELSE LET chr == CHOOSE c \in chrs : \A c2 \in chrs : c2 <= c
                     lo  == good_map[chr + 1]
                     j   == CHOOSE q \in 1..len(chr) : good[lo + q] = bin
                 IN  [cnt[bin] EXCEPT
                        !.label = Decoded(model, Observations(cnt, good, lo, len(chr)), j)]]

(***************************************************************************)
(* The inputs of a run. A "data" run has default options, asks for every   *)
(* report, reads and writes every file, and its read counts vary; a "flow" *)
(* run has one fixed set of reads per file, and its options and the        *)
(* outcome of every file operation vary.                                   *)
(***************************************************************************)
Options == [window : BOOLEAN, bins : BOOLEAN, exclude : BOOLEAN, help : BOOLEAN,
            info : BOOLEAN, sample_info : BOOLEAN, removed_bins : BOOLEAN]

\* the command line: the registered options it holds, the number of input
\* files, and whether the parser accepts it (an option that is not
\* registered, or a value that does not convert, makes store() of line 101
\* throw)
NoOptions == [window |-> FALSE, bins |-> FALSE, exclude |-> FALSE, help |-> FALSE,
              info |-> FALSE, sample_info |-> FALSE, removed_bins |-> FALSE]
Args(run) ==
    IF run = "data"
    THEN {[o |-> o, n_in |-> n, accepted |-> TRUE] : n \in 1..MaxCells,
            o \in {x \in Options : /\ ~x.window /\ ~x.bins /\ ~x.exclude /\ ~x.help
                                   /\ x.info /\ x.sample_info /\ x.removed_bins}}
    ELSE {[o |-> o, n_in |-> n, accepted |-> TRUE] : n \in 0..MaxFiles,
            o \in {x \in Options :
                     (x.window \/ x.bins \/ x.exclude \/ x.help)
                        => ~(x.info \/ x.sample_info \/ x.removed_bins)}}
         \cup {[o |-> NoOptions, n_in |-> n, accepted |-> FALSE] : n \in {1}}

\* sam_open on the i-th input file
SamOpens(run) == IF run = "data" THEN {TRUE} ELSE BOOLEAN

\* get_SM_tag on the header of the i-th input file: the tag, or none
NoTag == "none"
SMTags(run, i) ==
    IF run = "data" THEN (IF i = 1 THEN {"s1"} ELSE SampleNames)
    ELSE {NoTag, IF i % 2 = 1 THEN "s1" ELSE "s2"}

RECURSIVE NonDecreasing(_)
NonDecreasing(s) == Len(s) <= 1 \/ (s[1] <= s[2] /\ NonDecreasing(Tail(s)))

ChromLayouts(nbins) ==
    {s \in [1..nbins -> 0..(NTargets - 1)] : NonDecreasing(s)}

WideLayout == [b \in 1..WideBins |-> IF 2 * b <= WideBins THEN 0 ELSE NTargets - 1]

\* the chromosome of every bin that read_dynamic_bins or create_fixed_bins
\* builds, in chromosome order
BinLayouts(run) ==
    IF run = "data"
    THEN UNION {ChromLayouts(n) : n \in 1..MaxBins} \cup {WideLayout}
    ELSE {<<0, NTargets - 1>>}

\* read_dynamic_bins succeeds or not
BinFileReads(run) == IF run = "data" THEN {TRUE} ELSE BOOLEAN

\* the (watson, crick) counts of one bin
CountVals == {<<0, 0>>, <<1, 0>>, <<2, 3>>}

WideReads(nbins) ==
    {[b \in 1..nbins |-> IF b = z THEN <<0, 0>> ELSE IF b = h THEN <<2, 3>> ELSE <<1, 0>>] :
        z \in {0, 1, nbins}, h \in {0, 2, nbins - 1}}

\* count_sorted_reads on one file: failure, or the counts of its reads per bin
FileReads(run, nbins) ==
    {[ok |-> FALSE, v |-> << >>]} \cup
    {[ok |-> TRUE, v |-> v] :
        v \in IF run = "flow" THEN {[b \in 1..nbins |-> <<1, 0>>]}
              ELSE IF nbins <= MaxBins THEN [1..nbins -> CountVals]
              ELSE WideReads(nbins)}

\* std::ofstream::is_open() after opening an output file
OutOpens(run) == IF run = "data" THEN {TRUE} ELSE BOOLEAN

(***************************************************************************)
(* The state of a run.                                                     *)
(***************************************************************************)
VARIABLES
    pc,         \* the place of the run in main()
    ret,        \* the exit status, -1 while the run goes on
    vm,         \* the options given and the number of input files
    i,          \* the loop variable i of the loop the run is in
    i_f,        \* the loop variable i_f of the counting loop
    open,       \* the input files whose samFile is open
    cells,      \* std::vector<CellInfo>
    counts,     \* std::vector<TGenomeCounts>, each with the file it was read from
    bins,       \* std::vector<Interval>
    good_bins,  \* std::vector<unsigned>
    bad_bins,   \* std::vector<char>
    good_map,   \* std::vector<int32_t>
    samples,    \* std::unordered_map<std::string, SampleInfo>
    hmm,        \* the initial and transition probabilities of the HMM
    out,        \* the output files: whether opened for writing, and their rows
    err,        \* the diagnostics written so far
    seen        \* what the input files held: the SM tag read from each header,
                \* and whether count_sorted_reads succeeded on each file

vars == <<pc, ret, vm, i, i_f, open, cells, counts, bins, good_bins, bad_bins,
          good_map, samples, hmm, out, err, seen>>

Artifacts == {"info", "removed_bins", "sample_info", "table"}
Unwritten == [open |-> FALSE, rows |-> << >>]

CellInfo == [id |-> 0, sample_name |-> NoTag, median_bin_count |-> 0]
TGenomeCounts == [src |-> 0, c |-> << >>]

Init(run) ==
    /\ vm \in Args(run)
    /\ pc = "parse_args"
    /\ ret = -1
    /\ i = 0
    /\ i_f = 0
    /\ open = {}
    /\ cells = << >>
    /\ counts = << >>
    /\ bins = << >>
    /\ good_bins = << >>
    /\ bad_bins = << >>
    /\ good_map = << >>
    /\ samples = [s \in SampleNames |-> SampleInfo]
    /\ hmm = [initials |-> << >>, transitions |-> << >>]
    /\ out = [a \in Artifacts |-> Unwritten]
    /\ err = {}
    /\ seen = [tags |-> << >>, counted |-> << >>]

(***************************************************************************)
(* The steps of main().                                                    *)
(***************************************************************************)
Exit(code) == pc' = "exit" /\ ret' = code

\* lines 101-102: store() and notify() fill vm, or throw; main() has no
\* handler, so the exception ends the run in std::terminate (SIGABRT)
ParseArgs ==
    /\ pc = "parse_args"
    /\ IF vm.accepted
       THEN pc' = "check_args" /\ UNCHANGED <<ret, err>>
       ELSE Exit(134) /\ err' = err \cup {"uncaught exception"}
    /\ UNCHANGED <<vm, i, i_f, open, cells, counts, bins, good_bins, bad_bins,
                   good_map, samples, hmm, out, seen>>

\* -w with -b, or -b with -x (lines 105-112)
OptionsConflict(o) == (o.window /\ o.bins) \/ (o.bins /\ o.exclude)

\* the checks of lines 105-125; the per-cell vectors of lines 133-134
CheckArgs ==
    /\ pc = "check_args"
    /\ IF OptionsConflict(vm.o) \/ vm.o.help \/ vm.n_in = 0
       THEN /\ Exit(1)
            /\ err' = IF OptionsConflict(vm.o) THEN err \cup {"options conflict"} ELSE err
            /\ UNCHANGED <<i, cells, counts>>
       ELSE /\ pc' = "sam_open"
            /\ i' = 1
            /\ cells' = [k \in 1..vm.n_in |-> CellInfo]
            /\ counts' = [k \in 1..vm.n_in |-> TGenomeCounts]
            /\ UNCHANGED <<ret, err>>
    /\ UNCHANGED <<vm, i_f, open, bins, good_bins, bad_bins, good_map, samples, hmm, out, seen>>

\* lines 158-163: the id of cell i, and sam_open on file i
OpenHeader(run) ==
    /\ pc = "sam_open"
    /\ \E ok \in SamOpens(run) :
        /\ cells' = [cells EXCEPT ![i].id = i]
        /\ IF ok
           THEN /\ open' = open \cup {i}
                /\ pc' = "sm_tag"
                /\ UNCHANGED <<ret, err>>
           ELSE /\ Exit(1)
                /\ err' = err \cup {"fail to open file"}
                /\ UNCHANGED open
    /\ UNCHANGED <<vm, i, i_f, counts, bins, good_bins, bad_bins, good_map, samples, hmm, out, seen>>

\* lines 164-170: the SM tag of file i, then sam_close, then the next file
ReadSMTag(run) ==
    /\ pc = "sm_tag"
    /\ \E tag \in SMTags(run, i) :
        IF tag = NoTag
        THEN /\ Exit(1)
             /\ err' = err \cup {"exactly one SM tag"}
             /\ UNCHANGED <<open, cells, i, seen>>
        ELSE /\ cells' = [cells EXCEPT ![i].sample_name = tag]
             /\ seen' = [seen EXCEPT !.tags = Append(@, tag)]
             /\ open' = open \ {i}
             /\ i' = i + 1
             /\ pc' = IF i + 1 <= vm.n_in THEN "sam_open" ELSE "binning"
             /\ UNCHANGED <<ret, err>>
    /\ UNCHANGED <<vm, i_f, counts, bins, good_bins, bad_bins, good_map, samples, hmm, out>>

\* lines 173-198: the bins of the genome, from the bin file or of fixed width
BinGenome(run) ==
    /\ pc = "binning"
    /\ \E ok \in BinFileReads(run), layout \in BinLayouts(run) :
        IF vm.o.bins /\ ~ok
        THEN /\ Exit(1)
             /\ err' = err \cup {"cannot read bins"}
             /\ UNCHANGED <<bins, i, i_f>>
        ELSE /\ bins' = [b \in 1..Len(layout) |-> [chr |-> layout[b]]]
             /\ i' = 1
             /\ i_f' = 1
             /\ pc' = "counting"
             /\ UNCHANGED <<ret, err>>
    /\ UNCHANGED <<vm, open, cells, counts, good_bins, bad_bins, good_map, samples, hmm, out, seen>>

\* one turn of the counting loop (lines 205-214); --i and ++i leave i as it is
CountFile(run) ==
    /\ pc = "counting"
    /\ \E r \in FileReads(run, Len(bins)) :
        /\ seen' = [seen EXCEPT !.counted = Append(@, r.ok)]
        /\ IF r.ok
           THEN /\ counts' = [counts EXCEPT ![i] =
                       [src |-> i_f,
                        c   |-> [b \in 1..Len(bins) |-> Counter(r.v[b][1], r.v[b][2])]]]
                /\ i' = i + 1
                /\ UNCHANGED <<cells, err>>
           ELSE /\ counts' = EraseAt(counts, i)
                /\ cells' = EraseAt(cells, i)
                /\ err' = err \cup {"ignoring cell"}
                /\ UNCHANGED i
    /\ i_f' = i_f + 1
    /\ pc' = IF i_f + 1 <= vm.n_in THEN "counting" ELSE "median"
    /\ UNCHANGED <<ret, vm, open, bins, good_bins, bad_bins, good_map, samples, hmm, out>>

\* median count per cell (lines 217-222)
MedianCounts ==
    /\ pc = "median"
    /\ cells' = [k \in 1..Len(cells) |->
                    [cells[k] EXCEPT !.median_bin_count = MedianBinCount(counts[k].c)]]
    /\ pc' = "cell_info"
    /\ UNCHANGED <<ret, vm, i, i_f, open, counts, bins, good_bins, bad_bins, good_map,
                   samples, hmm, out, err, seen>>

\* the order of the sort of line 241: by sample name, then by id
NameRank(name) == IF name = "s1" THEN 1 ELSE IF name = "s2" THEN 2 ELSE 0
CellBefore(a, b) ==
    IF a.sample_name = b.sample_name THEN a.id < b.id
    ELSE NameRank(a.sample_name) < NameRank(b.sample_name)

RECURSIVE InsertCell(_, _)
InsertCell(x, s) ==
    IF s = << >> THEN <<x>>
    ELSE IF CellBefore(x, Head(s)) THEN <<x>> \o s
    ELSE <<Head(s)>> \o InsertCell(x, Tail(s))

RECURSIVE SortCells(_)
SortCells(s) == IF s = << >> THEN << >> ELSE InsertCell(Head(s), SortCells(Tail(s)))

\* the rows of the cell summary (lines 240-253); conf.f_in[k] is written k
CellInfoRows(cs) ==
    LET cells2 == SortCells(cs)
    IN  [k \in 1..Len(cells2) |->
            [sample |-> cells2[k].sample_name, cell |-> cells2[k].id,
             medbin |-> cells2[k].median_bin_count]]

\* an optional report: not asked for, written, or not opened (an error message)
WriteReport(run, name, asked, rows) ==
    \E ok \in OutOpens(run) :
        IF ~asked THEN UNCHANGED <<out, err>>
        ELSE IF ok THEN /\ out' = [out EXCEPT ![name] = [open |-> TRUE, rows |-> rows]]
                        /\ UNCHANGED err
        ELSE /\ err' = err \cup {"cannot write " \o name}
             /\ UNCHANGED out

\* lines 226-257
WriteCellInfo(run) ==
    /\ pc = "cell_info"
    /\ WriteReport(run, "info", vm.o.info, CellInfoRows(cells))
    /\ pc' = "filter"
    /\ UNCHANGED <<ret, vm, i, i_f, open, cells, counts, bins, good_bins, bad_bins,
                   good_map, samples, hmm, seen>>

CountsOf(cs) == [k \in 1..Len(cs) |-> cs[k].c]
MediansOf(cs) == [k \in 1..Len(cs) |-> cs[k].median_bin_count]
NamesOf(cs) == [k \in 1..Len(cs) |-> cs[k].sample_name]
BinChr(bs) == [b \in 1..Len(bs) |-> bs[b].chr]

\* lines 266-299
FilterBins ==
    /\ pc = "filter"
    /\ LET found == FindGoodBins(BinMeans(CountsOf(counts), MediansOf(cells), Len(bins)))
       IN  /\ good_bins' = found.good
           /\ bad_bins' = found.bad
    /\ pc' = "removed_bins"
    /\ UNCHANGED <<ret, vm, i, i_f, open, cells, counts, bins, good_map, samples, hmm,
                   out, err, seen>>

\* lines 302-320; a failed assertion aborts the run
WriteRemovedBins(run) ==
    /\ pc = "removed_bins"
    /\ LET st == RemovedBins(Len(bins), good_bins, bad_bins)
       IN  /\ WriteReport(run, "removed_bins", vm.o.removed_bins, st.rows)
           /\ IF out'["removed_bins"].open /\ st.badit # Len(bad_bins) + 1
              THEN Exit(134)
              ELSE pc' = "good_map" /\ UNCHANGED ret
    /\ UNCHANGED <<vm, i, i_f, open, cells, counts, bins, good_bins, bad_bins,
                   good_map, samples, hmm, seen>>

\* lines 323-334
BuildGoodMap ==
    /\ pc = "good_map"
    /\ good_map' = GoodMap(good_bins, BinChr(bins), NTargets)
    /\ pc' = "estimate"
    /\ UNCHANGED <<ret, vm, i, i_f, open, cells, counts, bins, good_bins, bad_bins,
                   samples, hmm, out, err, seen>>

\* lines 337-358
EstimateSamples ==
    /\ pc = "estimate"
    /\ samples' = Samples(CountsOf(counts), NamesOf(cells), good_bins)
    /\ pc' = "sample_info"
    /\ UNCHANGED <<ret, vm, i, i_f, open, cells, counts, bins, good_bins, bad_bins,
                   good_map, hmm, out, err, seen>>

\* the rows of the sample summary (lines 366-373), in the map's order
SampleInfoRows(ss) ==
    {[sample |-> s, cells |-> Len(ss[s].means), p |-> ss[s].p,
      means |-> ss[s].means, vars |-> ss[s].vars] :
        s \in {x \in SampleNames : ss[x].means # << >>}}

\* lines 360-377
WriteSampleInfo(run) ==
    /\ pc = "sample_info"
    /\ WriteReport(run, "sample_info", vm.o.sample_info, SampleInfoRows(samples))
    /\ pc' = "hmm"
    /\ UNCHANGED <<ret, vm, i, i_f, open, cells, counts, bins, good_bins, bad_bins,
                   good_map, samples, hmm, seen>>

\* lines 388-395
SetupHMM ==
    /\ pc = "hmm"
    /\ hmm' = [initials |-> Initials, transitions |-> Transitions(Len(bins))]
    /\ i' = 1
    /\ pc' = IF 1 <= Len(counts) THEN "decode" ELSE "table"
    /\ UNCHANGED <<ret, vm, i_f, open, cells, counts, bins, good_bins, bad_bins,
                   good_map, samples, out, err, seen>>

\* one turn of the loop of lines 398-413
DecodeCell ==
    /\ pc = "decode"
    /\ LET p     == samples[cells[i].sample_name].p
           model == [initials |-> hmm.initials, transitions |-> hmm.transitions,
                     emissions |-> Emissions(cells[i].median_bin_count, p)]
       IN  counts' = [counts EXCEPT
                        ![i].c = run_HMM(model, @, good_bins, good_map, NTargets)]
    /\ i' = i + 1
    /\ pc' = IF i + 1 <= Len(counts) THEN "decode" ELSE "table"
    /\ UNCHANGED <<ret, vm, i_f, open, cells, bins, good_bins, bad_bins, good_map,
                   samples, hmm, out, err, seen>>

\* the rows of lines 422-434, cell by cell and bin by bin; conf.f_in[k] is
\* written k
TableRows(cs, cnts, bs) ==
    LET nb == Len(bs)
    IN  [r \in 1..(Len(cnts) * nb) |->
            LET k   == ((r - 1) \div nb) + 1
                bin == ((r - 1) % nb) + 1
                cc  == cnts[k].c[bin]
            IN  [chrom |-> bs[bin].chr, bin |-> bin, sample |-> cs[k].sample_name,
                 cell |-> k, c |-> cc.crick_count, w |-> cc.watson_count,
                 class |-> cc.label]]

\* lines 418-440
WriteCountTable(run) ==
    /\ pc = "table"
    /\ \E ok \in OutOpens(run) :
        IF ok
        THEN /\ out' = [out EXCEPT !["table"] =
                          [open |-> TRUE, rows |-> TableRows(cells, counts, bins)]]
             /\ Exit(0)
             /\ UNCHANGED err
        ELSE /\ err' = err \cup {"cannot open table"}
             /\ Exit(2)
             /\ UNCHANGED out
    /\ UNCHANGED <<vm, i, i_f, open, cells, counts, bins, good_bins, bad_bins,
                   good_map, samples, hmm, seen>>

Next(run) ==
    \/ ParseArgs
    \/ CheckArgs
    \/ OpenHeader(run)
    \/ ReadSMTag(run)
    \/ BinGenome(run)
    \/ CountFile(run)
    \/ MedianCounts
    \/ WriteCellInfo(run)
    \/ FilterBins
    \/ WriteRemovedBins(run)
    \/ BuildGoodMap
    \/ EstimateSamples
    \/ WriteSampleInfo(run)
    \/ SetupHMM
    \/ DecodeCell
    \/ WriteCountTable(run)

\* runs whose read counts vary
Spec == Init("data") /\ [][Next("data")]_vars

\* runs whose options and file outcomes vary
SpecFlow == Init("flow") /\ [][Next("flow")]_vars

(***************************************************************************)
(* Properties.                                                             *)
(***************************************************************************)
Stages == <<"parse_args", "check_args", "sam_open", "sm_tag", "binning",
            "counting", "median", "cell_info", "filter", "removed_bins", "good_map", "estimate",
            "sample_info", "hmm", "decode", "table", "exit">>
StageNo(p) == CHOOSE k \in 1..Len(Stages) : Stages[k] = p

\* the run has gone through the given stage (a run that ends with status 1,
\* or in the option parser, ends before the bins are counted)
Completed(stage) ==
    IF pc = "exit" THEN ret \in {0, 2} ELSE StageNo(pc) > StageNo(stage)

Range(s) == {s[k] : k \in 1..Len(s)}

\* the input files on which count_sorted_reads has succeeded so far
CountedFiles == {f \in 1..Len(seen.counted) : seen.counted[f]}

\* C1: the count table has one row per (surviving cell, bin), bad bins
\* included, and every row carries the name of the input file its counts
\* were read from, and that file's sample.
C1_TableRowsNameTheirFile ==
    out["table"].open =>
        LET rows == out["table"].rows
            nb   == Len(bins)
        IN  /\ Len(rows) = Len(counts) * nb
            /\ \A k \in 1..Len(counts) : \A b \in 1..nb :
                LET r == rows[(k - 1) * nb + b]
                IN  /\ r.bin = b
                    /\ r.cell = counts[k].src
                    /\ r.sample = seen.tags[counts[k].src]
                    /\ r.c = counts[k].c[b].crick_count
                    /\ r.w = counts[k].c[b].watson_count

\* C2: in and after the counting loop cells and counts have the same length;
\* exactly the entries of the files whose counting failed are erased, the
\* entries left stay in file order, every entry counted so far holds the
\* reads of the file its CellInfo (id, sample_name) was made for, and when
\* the loop ends every file has been tried and the entries left are those
\* of the files counted.
C2_LockStepErase ==
    (pc = "counting" \/ Completed("counting")) =>
        LET done == Len(seen.counted)
            nok  == Cardinality(CountedFiles)
        IN  /\ Len(cells) = Len(counts)
            /\ done = i_f - 1
            /\ Len(cells) = vm.n_in - (done - nok)
            /\ Completed("counting") => (done = vm.n_in /\ Len(cells) = nok)
            /\ \A k \in 1..Len(cells) :
                /\ cells[k].id \in 1..vm.n_in
                /\ cells[k].sample_name = seen.tags[cells[k].id]
                /\ k <= nok => (counts[k].src = cells[k].id /\ cells[k].id \in CountedFiles)
                /\ k > nok => cells[k].id = done + (k - nok)
                /\ \A l \in 1..Len(cells) : k < l => cells[k].id < cells[l].id

\* a file failed in the counting loop, files before and after it were counted
C2_Witness ==
    /\ pc = "median"
    /\ seen.counted = <<TRUE, FALSE, TRUE>>
    /\ Len(cells) = 2

\* C9: no samFile of the pre-scan is open when the next file is opened or
\* when the run ends.
C9_HandlesClosed == pc \in {"sam_open", "exit"} => open = {}

UsageError ==
    \/ vm.o.window /\ vm.o.bins
    \/ vm.o.bins /\ vm.o.exclude
    \/ vm.o.help
    \/ vm.n_in = 0

InputError ==
    \/ "fail to open file" \in err
    \/ "exactly one SM tag" \in err
    \/ "cannot read bins" \in err

Reports == {"info", "removed_bins", "sample_info"}
Asked(a) ==
    IF a = "info" THEN vm.o.info
    ELSE IF a = "removed_bins" THEN vm.o.removed_bins ELSE vm.o.sample_info

\* C10: a run ends with status 1 exactly on a usage error or an unreadable
\* mandatory input, and then nothing has been written; with status 2 exactly
\* when the count table cannot be opened; with status 0 otherwise. A report
\* that cannot be opened does not end the run: every report asked for is
\* then written or reported as not writable, and the count table is tried.
C10_ExitStatus ==
    /\ ret \in {-1, 0, 1, 2}
    /\ pc = "exit" <=> ret # -1
    /\ (UsageError /\ pc \notin {"parse_args", "check_args"}) => ret = 1
    /\ InputError => ret = 1
    /\ ret = 1 => /\ UsageError \/ InputError
                  /\ \A a \in Artifacts : out[a] = Unwritten
    /\ ret = 2 <=> "cannot open table" \in err
    /\ ret = 0 <=> out["table"].open
    /\ ret \in {0, 2} =>
        \A a \in Reports :
            /\ Asked(a) => (out[a].open <=> ("cannot write " \o a) \notin err)
            /\ ~Asked(a) => ~out[a].open
    /\ \A a \in Reports : ("cannot write " \o a) \in err => ret # 1

\* C10 for the command lines that the option parser accepts
C10_ExitStatusAccepted == vm.accepted => C10_ExitStatus

\* the cell summary could not be opened; the later reports and the table
\* were written and the run ended with status 0
C10_Witness ==
    /\ pc = "exit" /\ ret = 0
    /\ "cannot write info" \in err
    /\ out["removed_bins"].open /\ out["sample_info"].open /\ out["table"].open

\* bin_means of the counts and medians of the state
Means == BinMeans(CountsOf(counts), MediansOf(cells), Len(bins))

\* the place in bad_bins of the reason code of a bin that is not good
BadPos(bin) == Cardinality({b \in 1..bin : b \notin Range(good_bins)})

StrictlyIncreasing(s) == \A j \in 1..Len(s) : \A l \in 1..Len(s) : j < l => s[j] < s[l]

\* C3: after the filter good_bins and bad_bins together classify every bin
\* exactly once: their lengths add up to the number of bins, good_bins holds
\* bin indices in strictly increasing order, and when the filter ends a bin
\* is in good_bins iff its mean is above 0.01 and below my_mean + 3*my_sd.
C3_GoodBadPartition ==
    Completed("filter") =>
        /\ Len(good_bins) + Len(bad_bins) = Len(bins)
        /\ Range(good_bins) \subseteq 1..Len(bins)
        /\ StrictlyIncreasing(good_bins)
        /\ Range(bad_bins) \subseteq {"l", "h"}
        /\ pc = "removed_bins" =>
            LET bin_means == Means
                my_mean   == FMean(bin_means)
                my_var    == FVariance(bin_means)
            IN  \A bin \in 1..Len(bins) :
                    bin \in Range(good_bins) <=>
                        /\ FLess(LowMean, bin_means[bin])
                        /\ BelowHigh(bin_means[bin], my_mean, my_var)

\* the filter found good bins, low bins and high bins
C3_Witness ==
    /\ pc = "removed_bins"
    /\ good_bins # << >>
    /\ "l" \in Range(bad_bins)
    /\ "h" \in Range(bad_bins)

\* C4: a bin without reads in any cell is not good and has reason code l.
C4_ZeroBinIsLow ==
    Completed("filter") =>
        \A bin \in 1..Len(bins) :
            (\A k \in 1..Len(counts) : Total(counts[k].c[bin]) = 0) =>
                /\ bin \notin Range(good_bins)
                /\ BadPos(bin) <= Len(bad_bins)
                /\ bad_bins[BadPos(bin)] = "l"

\* C5: the assertion of the report loop never fails, and a removed-bins
\* report that was written lists exactly the bins that are not in good_bins,
\* each once and in bin order, each with the reason code computed for it,
\* and uses up bad_bins.
C5_RemovedBinsRoundTrip ==
    /\ ret # 134
    /\ out["removed_bins"].open =>
        LET rows      == out["removed_bins"].rows
            bin_means == Means
        IN  /\ {rows[j].bin : j \in 1..Len(rows)} = (1..Len(bins)) \ Range(good_bins)
            /\ Len(rows) = Len(bins) - Len(good_bins)
            /\ Len(rows) = Len(bad_bins)
            /\ StrictlyIncreasing([j \in 1..Len(rows) |-> rows[j].bin])
            /\ \A j \in 1..Len(rows) :
                /\ rows[j].reason = bad_bins[j]
                /\ rows[j].reason = (IF FLeq(bin_means[rows[j].bin], LowMean) THEN "l" ELSE "h")

\* a report with a low bin and a high bin, between good bins
C5_Witness ==
    /\ out["removed_bins"].open
    /\ good_bins # << >>
    /\ \E j \in 1..Len(bad_bins) : \E l \in 1..Len(bad_bins) :
        /\ j < l
        /\ out["removed_bins"].rows[j].reason = "l"
        /\ out["removed_bins"].rows[l].reason = "h"
        /\ \E g \in Range(good_bins) :
            out["removed_bins"].rows[j].bin < g /\ g < out["removed_bins"].rows[l].bin

InUnitInterval(p) == FLess(Num(0), p) /\ FLess(p, Num(1))

\* C6: for a sample whose p is not in (0,1) an EstimationError is reported
\* and no bin of its cells carries a decoded label.
C6_EstimationErrorReported ==
    Completed("decode") =>
        \A s \in SampleNames :
            (samples[s].means # << >> /\ ~InUnitInterval(samples[s].p)) =>
                /\ ("EstimationError " \o s) \in err
                /\ \A k \in 1..Len(cells) :
                    cells[k].sample_name = s =>
                        \A bin \in 1..Len(bins) : counts[k].c[bin].label = NoLabel

\* C7: with N >= 1 bins the transition matrix has p_trans = 10/N off the
\* diagonal and 1 - 2*p_trans on it, every entry lies in [0,1] and every row
\* sums to 1.
C7_TransitionsStochastic ==
    (Completed("hmm") /\ Len(bins) >= 1) =>
        LET t       == hmm.transitions
            p_trans == FDiv(Num(10), Num(Len(bins)))
        IN  /\ Len(t) = 3
            /\ \A r \in 1..3 :
                /\ Len(t[r]) = 3
                /\ FSum(t[r]) = Num(1)
                /\ \A c \in 1..3 :
                    /\ t[r][c] = IF r = c THEN FSub(Num(1), FMul(Num(2), p_trans))
                                 ELSE p_trans
                    /\ FLeq(Num(0), t[r][c])
                    /\ FLeq(t[r][c], Num(1))

(***************************************************************************)
(* Chromosome isolation. A second run is the run of the state with the     *)
(* counts of one bin of one cell raised.                                   *)
(***************************************************************************)
Strip(cnt) == [b \in 1..Len(cnt) |-> Counter(cnt[b].watson_count, cnt[b].crick_count)]

Raised(cnt, bin, strand, by) ==
    [cnt EXCEPT ![bin] = IF strand = "w"
                         THEN [@ EXCEPT !.watson_count = @ + by]
                         ELSE [@ EXCEPT !.crick_count = @ + by]]

\* the model set for cell k in the loop of lines 398-411
ModelOf(k) ==
    [initials |-> hmm.initials, transitions |-> hmm.transitions,
     emissions |-> Emissions(cells[k].median_bin_count, samples[cells[k].sample_name].p)]

\* the labels, good bins and p of cell k in the run on the counts raw
SecondRun(raw, k) ==
    LET med   == [c \in 1..Len(raw) |-> MedianBinCount(raw[c])]
        found == FindGoodBins(BinMeans(raw, med, Len(bins)))
        gm    == GoodMap(found.good, BinChr(bins), NTargets)
        ss    == Samples(raw, NamesOf(cells), found.good)
        model == [initials |-> Initials, transitions |-> Transitions(Len(bins)),
                  emissions |-> Emissions(med[k], ss[cells[k].sample_name].p)]
    IN  [good |-> found.good, model |-> model,
         c |-> run_HMM(model, raw[k], found.good, gm, NTargets)]

HotBins == {x \in [k : 1..Len(counts), bin : 1..Len(bins), strand : {"w", "c"},
                   by : 1..MaxRaise] : TRUE}

\* C8 as stated: over the whole pipeline, raising the counts of one bin of a
\* cell on chromosome B changes neither the labels of the cell's bins on
\* another chromosome A, nor the good bins of A, nor the model of the cell.
C8_PipelineIsolation ==
    pc = "table" =>
        \A h \in HotBins :
            LET raw  == [c \in 1..Len(counts) |->
                            IF c = h.k THEN Raised(Strip(counts[c].c), h.bin, h.strand, h.by)
                            ELSE Strip(counts[c].c)]
                run2 == SecondRun(raw, h.k)
            IN  \A bin \in 1..Len(bins) :
                    bins[bin].chr # bins[h.bin].chr =>
                        /\ run2.c[bin].label = counts[h.k].c[bin].label
                        /\ bin \in Range(run2.good) <=> bin \in Range(good_bins)
                        /\ run2.model = ModelOf(h.k)

\* C8 as amended: in the decoding of a cell, with the good bins, good_map
\* and the model of the cell as they are, raising the counts of one bin on
\* chromosome B changes no label of the cell's bins on another chromosome.
C8_DecodeIsolation ==
    pc = "table" =>
        \A h \in HotBins :
            LET cnt  == Strip(counts[h.k].c)
                lab  == run_HMM(ModelOf(h.k), cnt, good_bins, good_map, NTargets)
                lab2 == run_HMM(ModelOf(h.k), Raised(cnt, h.bin, h.strand, h.by),
                                good_bins, good_map, NTargets)
            IN  /\ counts[h.k].c = lab
                /\ \A bin \in 1..Len(bins) :
                    bins[bin].chr # bins[h.bin].chr => lab2[bin].label = lab[bin].label

\* a cell with a labelled bin on each of two chromosomes
C8_Witness ==
    /\ pc = "table"
    /\ \E k \in 1..Len(counts) : \E a \in 1..Len(bins) : \E b \in 1..Len(bins) :
        /\ bins[a].chr # bins[b].chr
        /\ counts[k].c[a].label # NoLabel
        /\ counts[k].c[b].label # NoLabel

\* the good bins at the places [good_map[c], good_map[c+1]) of good_bins
GoodRange(c) == {good_bins[k + 1] : k \in good_map[c + 1]..(good_map[c + 2] - 1)}

\* C11: good_map has n_targets+1 entries, never decreases and ends with
\* good_bins.size(); the places [good_map[c], good_map[c+1]) of good_bins hold
\* exactly the good bins of chromosome c, and no place when c has none.
C11_GoodMapRanges ==
    Completed("good_map") =>
        /\ Len(good_map) = NTargets + 1
        /\ \A c \in 1..NTargets : good_map[c] <= good_map[c + 1]
        /\ good_map[1] >= 0
        /\ good_map[NTargets + 1] = Len(good_bins)
        /\ \A c \in 0..(NTargets - 1) :
            /\ \A k \in 0..(Len(good_bins) - 1) :
                  bins[good_bins[k + 1]].chr = c
                     <=> (good_map[c + 1] <= k /\ k < good_map[c + 2])
            /\ GoodRange(c) = {b \in Range(good_bins) : bins[b].chr = c}
            /\ (\A b \in Range(good_bins) : bins[b].chr # c)
                  => good_map[c + 1] = good_map[c + 2]

\* the first chromosome has bins but no good bin (an empty range), and the
\* last one has two good bins, which follow the bad bins in the bin order
C11_Witness ==
    /\ pc = "estimate"
    /\ \E b \in 1..Len(bins) : bins[b].chr = 0
    /\ GoodRange(0) = {}
    /\ Cardinality(GoodRange(NTargets - 1)) >= 2

==========================================================================
